---- MODULE Spec2Model ----
(***************************************************************************)
(* The storage-miner market commands of cmd/lotus-storage-miner/market.go: *)
(* set-ask, get-ask and deals import-data, run one after the other by an   *)
(* operator against a chain service (full node) and a market service       *)
(* (storage miner).  A command is a sequence of steps; each remote         *)
(* interaction is a step of its own that may fail.                         *)
(*                                                                         *)
(* Strings are sequences of one-character strings, so that the parsers     *)
(* (units.RAMInBytes, time.ParseDuration) are computed from the text.      *)
(* Durations are counted in ticks of 1/TicksPerSecond second; byte counts, *)
(* epochs and prices are integers well inside the int64 range.             *)
(***************************************************************************)
EXTENDS Integers, Sequences, FiniteSets, TLC

\* ------------------------------------------------------------ characters

Digits == {"0", "1", "2", "3", "4", "5", "6", "7", "8", "9"}

DigitVal(c) ==
    CASE c = "0" -> 0 [] c = "1" -> 1 [] c = "2" -> 2 [] c = "3" -> 3
      [] c = "4" -> 4 [] c = "5" -> 5 [] c = "6" -> 6 [] c = "7" -> 7
      [] c = "8" -> 8 [] c = "9" -> 9

DigitChar(d) ==
    CASE d = 0 -> "0" [] d = 1 -> "1" [] d = 2 -> "2" [] d = 3 -> "3"
      [] d = 4 -> "4" [] d = 5 -> "5" [] d = 6 -> "6" [] d = 7 -> "7"
      [] d = 8 -> "8" [] d = 9 -> "9"

\* s[i], or "" past the end of s
At(s, i) == IF i >= 1 /\ i <= Len(s) THEN s[i] ELSE ""

\* the first index >= i of s that holds no digit
RECURSIVE SkipDigits(_, _)
SkipDigits(s, i) == IF At(s, i) \in Digits THEN SkipDigits(s, i + 1) ELSE i

\* the number written by the digits s[i..j-1] (0 when there are none)
RECURSIVE DigitsValue(_, _, _)
DigitsValue(s, i, j) ==
    IF j <= i THEN 0 ELSE DigitsValue(s, i, j - 1) * 10 + DigitVal(s[j - 1])

RECURSIVE Pow(_, _)
Pow(b, n) == IF n = 0 THEN 1 ELSE b * Pow(b, n - 1)

\* integer division truncated toward zero, as Go converts a float to an integer
TruncDiv(a, b) == IF a >= 0 THEN a \div b ELSE -((-a) \div b)

\* ------------------------------------------------------ units.RAMInBytes
\* ^(\d+(\.\d+)*) ?([kKmMgGtTpP])?[iI]?[bB]?$ , then ParseFloat of the first
\* group times the binary multiplier of the unit letter, converted to int64.

\* the index after the groups "." digits+ that start at i
RECURSIVE SkipFracGroups(_, _)
SkipFracGroups(s, i) ==
    IF At(s, i) = "." /\ At(s, i + 1) \in Digits
    THEN SkipFracGroups(s, SkipDigits(s, i + 1))
    ELSE i

\* how many "." the number s[i..j-1] holds
RECURSIVE CountDots(_, _, _)
CountDots(s, i, j) ==
    IF j <= i THEN 0
    ELSE CountDots(s, i, j - 1) + (IF s[j - 1] = "." THEN 1 ELSE 0)

BinaryMultiplier(c) ==
    CASE c \in {"k", "K"} -> 1024
      [] c \in {"m", "M"} -> 1024 * 1024
      [] c \in {"g", "G"} -> 1024 * 1024 * 1024
      [] OTHER -> 1

ParseFail == [ok |-> FALSE, val |-> -1]

RAMInBytes(s) ==
    LET i1 == SkipDigits(s, 1)                      \* end of \d+
        i2 == SkipFracGroups(s, i1)                 \* end of (\.\d+)*
        i3 == IF At(s, i2) = " " THEN i2 + 1 ELSE i2
        hasUnit == At(s, i3) \in {"k", "K", "m", "M", "g", "G"}
        i4 == IF hasUnit THEN i3 + 1 ELSE i3
        i5 == IF At(s, i4) \in {"i", "I"} THEN i4 + 1 ELSE i4
        i6 == IF At(s, i5) \in {"b", "B"} THEN i5 + 1 ELSE i5
        dots == CountDots(s, i1, i2)
        fracLen == IF dots = 1 THEN i2 - i1 - 1 ELSE 0
        whole == DigitsValue(s, 1, i1)
        frac == IF dots = 1 THEN DigitsValue(s, i1 + 1, i2) ELSE 0
        mul == IF hasUnit THEN BinaryMultiplier(s[i3]) ELSE 1
    IN  IF i1 = 1 \/ i6 /= Len(s) + 1 THEN ParseFail      \* no match
        ELSE IF dots > 1 THEN ParseFail                   \* ParseFloat fails
        ELSE [ok |-> TRUE,
              val |-> ((whole * Pow(10, fracLen) + frac) * mul)
                          \div Pow(10, fracLen)]

\* ---------------------------------------------------- time.ParseDuration
\* [-+]?([0-9]*(\.[0-9]*)?[a-z]+)+ ; the value is counted in ticks.  The unit
\* table holds the entries "h", "m" and "s" of time's unitMap: the duration
\* strings of the model use no unit below the second.

TicksPerSecond == 10

UnitTicks(u) ==
    CASE u = <<"h">> -> 3600 * TicksPerSecond
      [] u = <<"m">> -> 60 * TicksPerSecond
      [] u = <<"s">> -> TicksPerSecond
      [] OTHER -> 0                                  \* unknown unit

\* the first index >= i of s that holds a digit or "." (the end of a unit)
RECURSIVE SkipUnit(_, _)
SkipUnit(s, i) ==
    IF i > Len(s) \/ s[i] \in Digits \/ s[i] = "." THEN i ELSE SkipUnit(s, i + 1)

\* the loop of ParseDuration over the terms of s that start at i, d the sum so far
RECURSIVE ParseTerms(_, _, _)
ParseTerms(s, i, d) ==
    IF i > Len(s) THEN [ok |-> TRUE, val |-> d]
    ELSE IF ~(s[i] = "." \/ s[i] \in Digits) THEN ParseFail
    ELSE LET i1 == SkipDigits(s, i)                  \* leadingInt
             pre == i1 /= i
             hasDot == At(s, i1) = "."
             i2 == IF hasDot THEN SkipDigits(s, i1 + 1) ELSE i1
             post == hasDot /\ i2 /= i1 + 1          \* leadingFraction
             i3 == SkipUnit(s, i2)
             unit == UnitTicks(SubSeq(s, i2, i3 - 1))
             v == DigitsValue(s, i, i1)
             f == IF hasDot THEN DigitsValue(s, i1 + 1, i2) ELSE 0
             scale == IF hasDot THEN Pow(10, i2 - i1 - 1) ELSE 1
         IN  IF ~pre /\ ~post THEN ParseFail
             ELSE IF i3 = i2 THEN ParseFail          \* missing unit
             ELSE IF unit = 0 THEN ParseFail         \* unknown unit
             ELSE ParseTerms(s, i3, d + v * unit + (f * unit) \div scale)

ParseDuration(s) ==
    LET signed == At(s, 1) \in {"-", "+"}
        neg == At(s, 1) = "-"
        body == IF signed THEN Tail(s) ELSE s
        r == ParseTerms(body, 1, 0)
    IN  IF body = <<"0">> THEN [ok |-> TRUE, val |-> 0]
        ELSE IF body = <<>> THEN ParseFail
        ELSE IF r.ok /\ neg THEN [ok |-> TRUE, val |-> -r.val]
        ELSE r

\* ------------------------------------------------------------ formatting

\* the decimal digits of n >= 0
RECURSIVE NatStr(_)
NatStr(n) ==
    IF n < 10 THEN <<DigitChar(n)>> ELSE NatStr(n \div 10) \o <<DigitChar(n % 10)>>

\* %d and %s of an integer
Itoa(n) == IF n < 0 THEN <<"-">> \o NatStr(-n) ELSE NatStr(n)

\* time.Duration.String of a whole number of seconds
DurationString(sec) ==
    LET a == IF sec < 0 THEN -sec ELSE sec
        h == a \div 3600
        m == (a % 3600) \div 60
        s == a % 60
        sign == IF sec < 0 THEN <<"-">> ELSE <<>>
    IN  sign \o (IF h > 0 THEN NatStr(h) \o <<"h">> ELSE <<>>)
             \o (IF h > 0 \/ m > 0 THEN NatStr(m) \o <<"m">> ELSE <<>>)
             \o NatStr(s) \o <<"s">>

ByteSizeUnits == <<<<"B">>, <<"K", "i", "B">>, <<"M", "i", "B">>, <<"G", "i", "B">>>>

\* types.SizeStr: the byte count in the largest binary unit that it reaches
RECURSIVE SizeUnitIndex(_, _)
SizeUnitIndex(n, i) ==
    IF n >= 1024 /\ i < Len(ByteSizeUnits) THEN SizeUnitIndex(n \div 1024, i + 1) ELSE i

SizeStr(n) ==
    LET i == SizeUnitIndex(n, 1)
    IN  NatStr(n \div Pow(1024, i - 1)) \o <<" ">> \o ByteSizeUnits[i]

\* ------------------------------------------------------------ the inputs

\* build.BlockDelay: seconds per epoch
BlockDelay == 25

\* the least padded piece size that set-ask accepts
MinPieceSizeLimit == 256

\* the largest sequence number the market service hands out in the model
MaxSeqNo == 1

Prices == {5}

\* the values the operator gives --duration, when it is given
DurationStrings ==
    { <<"4", "m", "2", "0", "s">>,      \* 260 s: 10.4 epochs
      <<"2", "4", "s">>,                \* less than one epoch
      <<"-", "4", "9", "s">>,           \* -1.96 epochs
      <<"a", "b", "c">> }

\* the values the operator gives --min-piece-size, when it is given
MinSizeStrings ==
    { <<"2", "5", "5">>, <<"1", "K", "i", "B">>, <<"a", "b", "c">> }

\* the values the operator gives --max-piece-size, when it is given
MaxSizeStrings ==
    { <<"0">>, <<"5", "1", "2", "B">>, <<"8", "M">> }

\* the sector sizes a miner actor may have (ActorSectorSize)
SectorSizes == {2048, 8388608}

\* the chain heights at which the model observes the chain
Heights == {90, 100, 150}

ValidCids == {"bafyproposal"}
ArgLists ==
    { <<>>, <<"bafyproposal">>, <<"bafyproposal", "/data/piece">>,
      <<"not-a-cid", "/data/piece">> }

\* the command line when no command runs
NoCctx == [cmd |-> "none", price |-> 0, flags |-> <<>>, args |-> <<>>]

FlagNames == {"duration", "min-piece-size", "max-piece-size"}

FlagStrings(name) ==
    CASE name = "duration" -> DurationStrings
      [] name = "min-piece-size" -> MinSizeStrings
      [] name = "max-piece-size" -> MaxSizeStrings

\* the string flags of a set-ask command line: any of them given or not
FlagSets ==
    UNION { { f \in [given -> UNION {FlagStrings(n) : n \in given}] :
                \A n \in given : f[n] \in FlagStrings(n) } :
            given \in SUBSET FlagNames }

\* the Value of each string flag of set-ask; max-piece-size declares none
FlagValue(name) ==
    CASE name = "duration" -> <<"7", "2", "0", "h", "0", "m", "0", "s">>
      [] name = "min-piece-size" -> <<"2", "5", "6", "B">>
      [] name = "max-piece-size" -> <<>>

\* cctx.String(name): the flag as given, else its Value
CctxString(c, name) ==
    IF name \in DOMAIN c.flags THEN c.flags[name] ELSE FlagValue(name)

\* cid.Decode succeeds on a well-formed content identifier only
CidDecodeOK(s) == s \in ValidCids

\* ------------------------------------------------------------- the state

VARIABLES
    pc,          \* the step the running command is at; "idle", "done" between commands
    cctx,        \* the command line of the running command
    dur,         \* set-ask: the parsed duration (ticks)
    min,         \* set-ask: the parsed minimum piece size
    max,         \* set-ask: the parsed, then effective, maximum piece size
    smax,        \* set-ask: int64(ssize)
    sask,        \* get-ask: what MarketGetAsk returned
    trace,       \* the steps the running command has taken, in order
    err,         \* the error the command returned, NoErr if none
    out,         \* the lines the command wrote
    height,      \* chain service: the height of the chain head
    sectorSize,  \* chain service: the miner actor's sector size
    ask,         \* market service: the stored ask, NoAsk if none
    seqNo,       \* market service: the next sequence number
    published    \* history: what the last successful set-ask submitted, and when

vars == <<pc, cctx, dur, min, max, smax, sask, trace, err, out,
          height, sectorSize, ask, seqNo, published>>

NoErr == [msg |-> "nil"]
NoAsk == [none |-> TRUE]
NilSask == [nil |-> TRUE]
NoPublished == [none |-> TRUE]

ErrDuration == [msg |-> "cannot parse duration"]
ErrMinParse == [msg |-> "cannot parse min-piece-size to quantity of bytes"]
ErrMinTooSmall == [msg |-> "minimum piece size (w/bit-padding) is 256B"]
ErrMaxParse == [msg |-> "cannot parse max-piece-size to quantity of bytes"]
ErrMaxTooBig ==
    [msg |-> "max piece size (w/bit-padding) cannot exceed miner sector size"]
ErrArgs == [msg |-> "must specify proposal CID and file path"]
ErrCid == [msg |-> "cid.Decode"]
ErrRemote(op) == [msg |-> "remote error", op |-> op]

HeaderLine == [text |-> "Price per GiB / Epoch ... Seq. No."]
NoAskLine == [text |-> "<miner does not have an ask>"]
Expired == <<"<", "e", "x", "p", "i", "r", "e", "d", ">">>

\* one step of a command: the operation, its arguments and whether it succeeded
Step(op, args, ok) == [ok |-> ok, args |-> args, op |-> op]

\* the interactions with the chain service and the market service
RemoteOps ==
    { "GetStorageMinerAPI", "GetFullNodeAPI", "ActorAddress", "ActorSectorSize",
      "MarketSetAsk", "MarketGetAsk", "ChainHead", "DealsImportData" }

Idle == pc \in {"idle", "done"}

\* the preexisting ask of the market service in some initial states
PreAsk == [Price |-> 1, MinPieceSize |-> 256, MaxPieceSize |-> 2048,
           Expiry |-> 100, SeqNo |-> 0]

Init ==
    /\ pc = "idle"
    /\ cctx = NoCctx
    /\ dur = 0 /\ min = 0 /\ max = 0 /\ smax = 0
    /\ sask = NilSask
    /\ trace = <<>>
    /\ err = NoErr
    /\ out = <<>>
    /\ height = 90
    /\ sectorSize \in SectorSizes
    /\ \/ ask = NoAsk /\ seqNo = 0
       \/ ask = PreAsk /\ seqNo = 1
    /\ published = NoPublished

\* a command begins: its locals are fresh
Begin(c, first) ==
    /\ Idle
    /\ cctx' = c
    /\ pc' = first
    /\ dur' = 0 /\ min' = 0 /\ max' = 0 /\ smax' = 0
    /\ sask' = NilSask
    /\ trace' = <<>>
    /\ err' = NoErr
    /\ out' = <<>>
    /\ UNCHANGED <<height, sectorSize, ask, seqNo, published>>

\* the command returns e
Return(e) == pc' = "done" /\ err' = e

\* the chain grows while commands run
ChainAdvance ==
    /\ \E h \in Heights : h > height /\ height' = h
    /\ UNCHANGED <<pc, cctx, dur, min, max, smax, sask, trace, err, out,
                   sectorSize, ask, seqNo, published>>

\* ---------------------------------------------------------------- set-ask

\* the check of the minimum with its limit one too low
MinTooSmallOffByOne(m) == m < MinPieceSizeLimit - 1

\* min < 256
MinTooSmall(m) == m < MinPieceSizeLimit

\* if max == 0 { max = smax }
EffectiveMax(mx, sm) == IF mx = 0 THEN sm ELSE mx

\* max > smax
MaxTooBig(mx, sm) == mx > sm

\* the epoch count rounded down instead of toward zero
ChainEpochFloor(d) == d \div (BlockDelay * TicksPerSecond)

\* qty := dur.Seconds() / build.BlockDelay, then abi.ChainEpoch(qty)
ChainEpochOf(d) == TruncDiv(d, BlockDelay * TicksPerSecond)

\* the market service stores the ask: it expires the given number of epochs
\* after the current one and carries a fresh sequence number
StoredAsk(pri, epochs, mn, mx, head, seq) ==
    [Price |-> pri, MinPieceSize |-> mn, MaxPieceSize |-> mx,
     Expiry |-> head + epochs, SeqNo |-> seq]

StartSetAsk ==
    \E price \in Prices, flags \in FlagSets : 
        Begin([cmd |-> "set-ask", price |-> price, flags |-> flags, args |-> <<>>],
              "sa_api")

\* api, closer, err := lcli.GetStorageMinerAPI(cctx)
SetAsk_API ==
    /\ pc = "sa_api"
    /\ \E ok \in BOOLEAN :
        /\ trace' = Append(trace, Step("GetStorageMinerAPI", <<>>, ok))
        /\ IF ok THEN pc' = "sa_dur" /\ err' = err
                 ELSE Return(ErrRemote("GetStorageMinerAPI"))
    /\ UNCHANGED <<cctx, dur, min, max, smax, sask, out, height, sectorSize,
                   ask, seqNo, published>>

\* dur, err := time.ParseDuration(cctx.String("duration"))
SetAsk_Duration ==
    /\ pc = "sa_dur"
    /\ LET r == ParseDuration(CctxString(cctx, "duration"))
       IN  /\ trace' = Append(trace, Step("ParseDuration", <<>>, r.ok))
           /\ IF r.ok THEN dur' = r.val /\ pc' = "sa_min" /\ err' = err
                      ELSE dur' = dur /\ Return(ErrDuration)
    /\ UNCHANGED <<cctx, min, max, smax, sask, out, height, sectorSize, ask,
                   seqNo, published>>

\* min, err := units.RAMInBytes(cctx.String("min-piece-size")); if min < 256
SetAsk_Min ==
    /\ pc = "sa_min"
    /\ LET r == RAMInBytes(CctxString(cctx, "min-piece-size"))
       IN  IF ~r.ok
           THEN /\ trace' = Append(trace, Step("ParseMin", <<>>, FALSE))
                /\ min' = min
                /\ Return(ErrMinParse)
           ELSE /\ min' = r.val
                /\ trace' = trace \o <<Step("ParseMin", <<>>, TRUE),
                                      Step("CheckMin", <<r.val>>, ~MinTooSmall(r.val))>>
                /\ IF MinTooSmall(r.val) THEN Return(ErrMinTooSmall)
                                         ELSE pc' = "sa_max" /\ err' = err
    /\ UNCHANGED <<cctx, dur, max, smax, sask, out, height, sectorSize, ask,
                   seqNo, published>>

\* the maximum parsed and the sector size asked for without the actor address
SetAsk_MaxThenSectorSize ==
    /\ pc = "sa_max"
    /\ LET r == RAMInBytes(CctxString(cctx, "max-piece-size"))
       IN  /\ trace' = Append(trace, Step("ParseMax", <<>>, r.ok))
           /\ IF r.ok THEN max' = r.val /\ pc' = "sa_ssize" /\ err' = err
                      ELSE max' = max /\ Return(ErrMaxParse)
    /\ UNCHANGED <<cctx, dur, min, smax, sask, out, height, sectorSize, ask,
                   seqNo, published>>

\* max, err := units.RAMInBytes(cctx.String("max-piece-size"))
SetAsk_Max ==
    /\ pc = "sa_max"
    /\ LET r == RAMInBytes(CctxString(cctx, "max-piece-size"))
       IN  /\ trace' = Append(trace, Step("ParseMax", <<>>, r.ok))
           /\ IF r.ok THEN max' = r.val /\ pc' = "sa_addr" /\ err' = err
                      ELSE max' = max /\ Return(ErrMaxParse)
    /\ UNCHANGED <<cctx, dur, min, smax, sask, out, height, sectorSize, ask,
                   seqNo, published>>

\* ActorAddress with its error dropped
SetAsk_ActorAddressUnchecked ==
    /\ pc = "sa_addr"
    /\ \E ok \in BOOLEAN :
        /\ trace' = Append(trace, Step("ActorAddress", <<>>, ok))
        /\ pc' = "sa_ssize" /\ err' = err
    /\ UNCHANGED <<cctx, dur, min, max, smax, sask, out, height, sectorSize,
                   ask, seqNo, published>>

\* maddr, err := api.ActorAddress(ctx)
SetAsk_ActorAddress ==
    /\ pc = "sa_addr"
    /\ \E ok \in BOOLEAN :
        /\ trace' = Append(trace, Step("ActorAddress", <<>>, ok))
        /\ IF ok THEN pc' = "sa_ssize" /\ err' = err
                 ELSE Return(ErrRemote("ActorAddress"))
    /\ UNCHANGED <<cctx, dur, min, max, smax, sask, out, height, sectorSize,
                   ask, seqNo, published>>

\* ssize, err := api.ActorSectorSize(ctx, maddr); smax := int64(ssize);
\* the default of max and the check against smax
SetAsk_SectorSize ==
    /\ pc = "sa_ssize"
    /\ \E ok \in BOOLEAN :
        IF ~ok
        THEN /\ trace' = Append(trace, Step("ActorSectorSize", <<>>, FALSE))
             /\ smax' = smax /\ max' = max
             /\ Return(ErrRemote("ActorSectorSize"))
        ELSE LET m == EffectiveMax(max, sectorSize)
             IN  /\ smax' = sectorSize
                 /\ max' = m
                 /\ trace' = trace \o
                        <<Step("ActorSectorSize", <<>>, TRUE),
                          Step("CheckMax", <<m, sectorSize>>, ~MaxTooBig(m, sectorSize))>>
                 /\ IF MaxTooBig(m, sectorSize) THEN Return(ErrMaxTooBig)
                                                ELSE pc' = "sa_submit" /\ err' = err
    /\ UNCHANGED <<cctx, dur, min, sask, out, height, sectorSize, ask, seqNo,
                   published>>

\* return api.MarketSetAsk(ctx, pri, abi.ChainEpoch(qty),
\*                         abi.PaddedPieceSize(min), abi.PaddedPieceSize(max))
SetAsk_Submit ==
    /\ pc = "sa_submit"
    /\ seqNo <= MaxSeqNo
    /\ \E ok \in BOOLEAN :
        LET pri == cctx.price
            epochs == ChainEpochOf(dur)
        IN  /\ trace' = Append(trace,
                           Step("MarketSetAsk", <<pri, epochs, min, max>>, ok))
            /\ IF ok
               THEN /\ ask' = StoredAsk(pri, epochs, min, max, height, seqNo)
                    /\ seqNo' = seqNo + 1
                    /\ published' = [price |-> pri, dur |-> dur, min |-> min,
                                     max |-> max, height |-> height]
                    /\ Return(NoErr)
               ELSE /\ UNCHANGED <<ask, seqNo, published>>
                    /\ Return(ErrRemote("MarketSetAsk"))
    /\ UNCHANGED <<cctx, dur, min, max, smax, sask, out, height, sectorSize>>

\* ---------------------------------------------------------------- get-ask

\* the market service's answer to MarketGetAsk: with no ask stored, no signed
\* ask at all or a signed ask that carries none
GetAskAnswers(a) ==
    IF a = NoAsk THEN {NilSask, [Ask |-> NoAsk]} ELSE {[Ask |-> a]}

\* the test of the signed ask alone
HasSignedAsk(s) == "nil" \notin DOMAIN s

\* sask != nil && sask.Ask != nil
HasAsk(s) == "nil" \notin DOMAIN s /\ s.Ask /= NoAsk

\* the remaining time with an ask that expires now not yet expired
RemainingTimeInclusive(a, head) ==
    LET dlt == a.Expiry - head
    IN  IF dlt >= 0 THEN DurationString(dlt * BlockDelay) ELSE Expired

\* dlt := ask.Expiry - head.Height(); rem
RemainingTime(a, head) ==
    LET dlt == a.Expiry - head
    IN  IF dlt > 0 THEN DurationString(dlt * BlockDelay) ELSE Expired

\* the row with the minimum piece size in both size columns
AskRowMinTwice(a, head) ==
    [price |-> Itoa(a.Price),
     min |-> SizeStr(a.MinPieceSize),
     max |-> SizeStr(a.MinPieceSize),
     expiry |-> Itoa(a.Expiry),
     rem |-> RemainingTime(a, head),
     seqno |-> Itoa(a.SeqNo)]

\* the row that get-ask writes for the ask
AskRow(a, head) ==
    [price |-> Itoa(a.Price),
     min |-> SizeStr(a.MinPieceSize),
     max |-> SizeStr(a.MaxPieceSize),
     expiry |-> Itoa(a.Expiry),
     rem |-> RemainingTime(a, head),
     seqno |-> Itoa(a.SeqNo)]

StartGetAsk ==
    Begin([cmd |-> "get-ask", price |-> 0, flags |-> <<>>, args |-> <<>>], "ga_fnapi")

\* fnapi, closer, err := lcli.GetFullNodeAPI(cctx)
GetAsk_FullNodeAPI ==
    /\ pc = "ga_fnapi"
    /\ \E ok \in BOOLEAN :
        /\ trace' = Append(trace, Step("GetFullNodeAPI", <<>>, ok))
        /\ IF ok THEN pc' = "ga_smapi" /\ err' = err
                 ELSE Return(ErrRemote("GetFullNodeAPI"))
    /\ UNCHANGED <<cctx, dur, min, max, smax, sask, out, height, sectorSize,
                   ask, seqNo, published>>

\* smapi, closer, err := lcli.GetStorageMinerAPI(cctx)
GetAsk_MinerAPI ==
    /\ pc = "ga_smapi"
    /\ \E ok \in BOOLEAN :
        /\ trace' = Append(trace, Step("GetStorageMinerAPI", <<>>, ok))
        /\ IF ok THEN pc' = "ga_market" /\ err' = err
                 ELSE Return(ErrRemote("GetStorageMinerAPI"))
    /\ UNCHANGED <<cctx, dur, min, max, smax, sask, out, height, sectorSize,
                   ask, seqNo, published>>

\* sask, err := smapi.MarketGetAsk(ctx); the header; without an ask the
\* no-ask line and return w.Flush()
GetAsk_Market ==
    /\ pc = "ga_market"
    /\ \/ /\ trace' = Append(trace, Step("MarketGetAsk", <<>>, FALSE))
          /\ Return(ErrRemote("MarketGetAsk"))
          /\ UNCHANGED <<sask, out>>
       \/ \E s \in GetAskAnswers(ask) :
            /\ trace' = Append(trace, Step("MarketGetAsk", <<>>, TRUE))
            /\ sask' = s
            /\ IF HasAsk(s)
               THEN out' = <<HeaderLine>> /\ pc' = "ga_head" /\ err' = err
               ELSE out' = <<HeaderLine, NoAskLine>> /\ Return(NoErr)
    /\ UNCHANGED <<cctx, dur, min, max, smax, height, sectorSize, ask, seqNo,
                   published>>

\* head, err := fnapi.ChainHead(ctx); the row of the ask and return w.Flush()
GetAsk_Head ==
    /\ pc = "ga_head"
    /\ \E ok \in BOOLEAN :
        /\ trace' = Append(trace, Step("ChainHead", <<height>>, ok))
        /\ IF ok THEN out' = Append(out, AskRow(sask.Ask, height)) /\ Return(NoErr)
                 ELSE out' = out /\ Return(ErrRemote("ChainHead"))
    /\ UNCHANGED <<cctx, dur, min, max, smax, sask, height, sectorSize, ask,
                   seqNo, published>>

\* ------------------------------------------------------ deals import-data

StartImportData ==
    \E a \in ArgLists :
        Begin([cmd |-> "import-data", price |-> 0, flags |-> <<>>, args |-> a], "id_api")

\* api, closer, err := lcli.GetStorageMinerAPI(cctx)
ImportData_API ==
    /\ pc = "id_api"
    /\ \E ok \in BOOLEAN :
        /\ trace' = Append(trace, Step("GetStorageMinerAPI", <<>>, ok))
        /\ IF ok THEN pc' = "id_args" /\ err' = err
                 ELSE Return(ErrRemote("GetStorageMinerAPI"))
    /\ UNCHANGED <<cctx, dur, min, max, smax, sask, out, height, sectorSize,
                   ask, seqNo, published>>

\* the arguments with the error of cid.Decode dropped
ImportData_ArgsUndecoded ==
    /\ pc = "id_args"
    /\ IF Len(cctx.args) < 2
       THEN trace' = trace /\ Return(ErrArgs)
       ELSE /\ trace' = Append(trace, Step("cid.Decode", <<>>, CidDecodeOK(cctx.args[1])))
            /\ pc' = "id_import" /\ err' = err
    /\ UNCHANGED <<cctx, dur, min, max, smax, sask, out, height, sectorSize,
                   ask, seqNo, published>>

\* cctx.Args().Len() < 2; propCid, err := cid.Decode(cctx.Args().Get(0))
ImportData_Args ==
    /\ pc = "id_args"
    /\ IF Len(cctx.args) < 2
       THEN trace' = trace /\ Return(ErrArgs)
       ELSE /\ trace' = Append(trace, Step("cid.Decode", <<>>, CidDecodeOK(cctx.args[1])))
            /\ IF CidDecodeOK(cctx.args[1]) THEN pc' = "id_import" /\ err' = err
                                            ELSE Return(ErrCid)
    /\ UNCHANGED <<cctx, dur, min, max, smax, sask, out, height, sectorSize,
                   ask, seqNo, published>>

\* return api.DealsImportData(ctx, propCid, fpath)
ImportData_Import ==
    /\ pc = "id_import"
    /\ \E ok \in BOOLEAN :
        /\ trace' = Append(trace,
                       Step("DealsImportData", <<cctx.args[1], cctx.args[2]>>, ok))
        /\ Return(IF ok THEN NoErr ELSE ErrRemote("DealsImportData"))
    /\ UNCHANGED <<cctx, dur, min, max, smax, sask, out, height, sectorSize,
                   ask, seqNo, published>>

\* ------------------------------------------------------ the specification

Next ==
    \/ StartSetAsk \/ SetAsk_API \/ SetAsk_Duration \/ SetAsk_Min \/ SetAsk_Max
    \/ SetAsk_ActorAddress \/ SetAsk_SectorSize \/ SetAsk_Submit
    \/ StartGetAsk \/ GetAsk_FullNodeAPI \/ GetAsk_MinerAPI \/ GetAsk_Market
    \/ GetAsk_Head
    \/ StartImportData \/ ImportData_API \/ ImportData_Args \/ ImportData_Import
    \/ ChainAdvance

Spec == Init /\ [][Next]_vars

\* ------------------------------------------------------------ properties

SetAskRun == cctx.cmd = "set-ask"
GetAskRun == cctx.cmd = "get-ask"
ImportDataRun == cctx.cmd = "import-data"

\* the positions of the trace at which op was attempted
StepsOf(op) == {i \in DOMAIN trace : trace[i].op = op}

\* the command has ended with the row of an ask written
RowShown == GetAskRun /\ pc = "done" /\ err = NoErr /\ Len(out) = 2 /\ HasAsk(sask)

\* the height that ChainHead returned to the running get-ask
HeadSeen == trace[Len(trace)].args[1]

C2_MinAtMostMax ==
    SetAskRun =>
        \A i \in StepsOf("MarketSetAsk") : trace[i].args[3] <= trace[i].args[4]

\* the run gives no explicit maximum: the flag is absent or parses to zero
NoExplicitMax ==
    \/ "max-piece-size" \notin DOMAIN cctx.flags
    \/ LET mx == RAMInBytes(cctx.flags["max-piece-size"]) IN mx.ok /\ mx.val = 0

\* the duration and the minimum of the run are valid and no remote call failed
OtherInputsValid ==
    /\ ParseDuration(CctxString(cctx, "duration")).ok
    /\ LET mn == RAMInBytes(CctxString(cctx, "min-piece-size"))
       IN  mn.ok /\ mn.val >= 256 /\ mn.val <= sectorSize
    /\ \A i \in DOMAIN trace : trace[i].op \in RemoteOps => trace[i].ok

\* C3: a set-ask without an explicit maximum piece size (flag absent, or a value
\* that parses to zero) whose other inputs are valid succeeds, and the maximum
\* it submits is the sector size.
C3_DefaultMaxIsSectorSize ==
    (SetAskRun /\ pc = "done" /\ NoExplicitMax /\ OtherInputsValid) =>
        /\ err = NoErr
        /\ StepsOf("MarketSetAsk") /= {}
        /\ \A i \in StepsOf("MarketSetAsk") : trace[i].args[4] = sectorSize

\* C4: the remaining time that get-ask shows is the expired sentinel exactly
\* when expiry - head <= 0, and otherwise reads back as (expiry - head) *
\* BlockDelay seconds.
C4_RemainingTime ==
    RowShown =>
        LET dlt == sask.Ask.Expiry - HeadSeen
            rem == out[2].rem
        IN  /\ (rem = Expired) <=> (dlt <= 0)
            /\ dlt > 0 =>
                 ParseDuration(rem) =
                     [ok |-> TRUE, val |-> dlt * BlockDelay * TicksPerSecond]

\* the ask that expires at 100 shown at height 90: 10 epochs, 4m10s
C4_Witness ==
    /\ RowShown
    /\ sask.Ask.Expiry = 100 /\ HeadSeen = 90
    /\ out[2].rem = <<"4", "m", "1", "0", "s">>

\* C5: once MarketGetAsk has returned no ask (no signed ask, or one without an
\* ask), get-ask has ended without an error, has written the no-ask line and
\* has not asked the chain service for its head.
C5_NoAskIsNoError ==
    (/\ GetAskRun
     /\ \E i \in StepsOf("MarketGetAsk") : trace[i].ok
     /\ sask \in {NilSask, [Ask |-> NoAsk]}) =>
        /\ pc = "done"
        /\ err = NoErr
        /\ out = <<HeaderLine, NoAskLine>>
        /\ StepsOf("ChainHead") = {}

\* get-ask answered by a signed ask that carries no ask
C5_Witness ==
    /\ GetAskRun /\ pc = "done" /\ sask = [Ask |-> NoAsk]
    /\ out = <<HeaderLine, NoAskLine>>

\* the first argument of import-data is missing or no content identifier
BadImportArgs == Len(cctx.args) < 2 \/ ~CidDecodeOK(cctx.args[1])

\* C6 as stated: an import-data with fewer than two arguments or a malformed
\* proposal identifier fails with no interaction with the market service
\* before the failure.
C6_NoInteractionBeforeFailure ==
    (ImportDataRun /\ BadImportArgs /\ pc = "done") =>
        /\ err /= NoErr
        /\ err \in {ErrArgs, ErrCid} =>
              \A i \in DOMAIN trace : trace[i].op \notin RemoteOps

\* C6 amended: such a run fails and never invokes DealsImportData; the one
\* interaction that precedes the failure is the opening of the storage miner
\* API, whose failure ends the run before the arguments are looked at.
C6_NoImportOnBadArgs ==
    (ImportDataRun /\ BadImportArgs) =>
        /\ StepsOf("DealsImportData") = {}
        /\ \A i \in DOMAIN trace :
              trace[i].op \in RemoteOps => trace[i].op = "GetStorageMinerAPI"
        /\ pc = "done" => err \in {ErrArgs, ErrCid, ErrRemote("GetStorageMinerAPI")}
        /\ err \in {ErrArgs, ErrCid} => StepsOf("GetStorageMinerAPI") /= {}

\* an import-data rejected for its malformed proposal identifier
C6_Witness ==
    /\ ImportDataRun /\ pc = "done" /\ err = ErrCid
    /\ Len(cctx.args) = 2

\* the error that set-ask returns when the step op fails
StepError(op) ==
    CASE op = "ParseDuration" -> ErrDuration
      [] op = "ParseMin" -> ErrMinParse
      [] op = "CheckMin" -> ErrMinTooSmall
      [] op = "ParseMax" -> ErrMaxParse
      [] op = "CheckMax" -> ErrMaxTooBig
      [] OTHER -> ErrRemote(op)

\* the state part of C7
AtMostOneSubmit ==
    SetAskRun =>
        /\ Cardinality(StepsOf("MarketSetAsk")) <= 1
        /\ \A i \in StepsOf("MarketSetAsk") :
              /\ i = Len(trace)
              /\ pc = "done"
              /\ \A j \in 1..(i - 1) : trace[j].ok
        /\ (pc = "done" /\ err = NoErr) =>
              \E i \in StepsOf("MarketSetAsk") : trace[i].ok
        /\ \A j \in DOMAIN trace :
              (~trace[j].ok /\ trace[j].op /= "MarketSetAsk") =>
                  /\ StepsOf("MarketSetAsk") = {}
                  /\ pc = "done" /\ err = StepError(trace[j].op)

\* C7: a set-ask invokes MarketSetAsk at most once, as its last step and only
\* after every earlier step succeeded; a run in which an earlier step fails
\* returns an error without invoking it; a successful run invokes it once; and
\* the stored ask changes only in the step of a set-ask that invokes it and
\* succeeds.
C7_SingleTerminalSubmit ==
    /\ []AtMostOneSubmit
    /\ [][ask' /= ask =>
            /\ pc = "sa_submit" /\ pc' = "done" /\ err' = NoErr
            /\ trace'[Len(trace')] = Step("MarketSetAsk",
                                          <<cctx.price, ChainEpochOf(dur), min, max>>,
                                          TRUE)]_vars

\* a set-ask that failed at ActorSectorSize with an ask stored before
C7_Witness ==
    /\ SetAskRun /\ pc = "done" /\ err = ErrRemote("ActorSectorSize")
    /\ ask = PreAsk

C9_EpochsTruncated ==
    SetAskRun =>
        LET d == ParseDuration(CctxString(cctx, "duration"))
            epoch == BlockDelay * TicksPerSecond
        IN  /\ \A i \in StepsOf("MarketSetAsk") :
                 LET e == trace[i].args[2]
                 IN  /\ d.ok
                     /\ d.val >= 0 =>
                           (e >= 0 /\ e * epoch <= d.val /\ d.val < (e + 1) * epoch)
                     /\ d.val < 0 =>
                           (e <= 0 /\ (e - 1) * epoch < d.val /\ d.val <= e * epoch)
                     /\ "duration" \notin DOMAIN cctx.flags => e = 103680
            /\ ~d.ok =>
                 /\ StepsOf("MarketSetAsk") = {}
                 /\ pc = "done" => err /= NoErr

\* a duration of -49 s submitted as -1 epoch
C9_Witness ==
    /\ SetAskRun /\ pc = "done" /\ err = NoErr
    /\ dur = -49 * TicksPerSecond
    /\ trace[Len(trace)].args[2] = -1

SetAskOrder ==
    << "GetStorageMinerAPI", "ParseDuration", "ParseMin", "CheckMin", "ParseMax",
       "ActorAddress", "ActorSectorSize", "CheckMax", "MarketSetAsk" >>

====
